---- MODULE Spec2Model ----
(***************************************************************************)
(* A model of s3test.py: a command-line demonstration of AWS STS           *)
(* federation tokens scoped to one "folder" (key prefix) of an S3 bucket.  *)
(*                                                                         *)
(* One behaviour of the model is a series of process runs of the program   *)
(* (auth, list, read, or no subcommand), one after the other, that share   *)
(* the working directory's files, the token service's sessions and the     *)
(* clock.  Text (folder names, keys, credentials, ARNs) is a sequence of   *)
(* one-character strings, so that concatenation, prefix tests, wildcard    *)
(* matching and JSON escaping are computed, not assumed.                   *)
(***************************************************************************)
EXTENDS Integers, Sequences, FiniteSets, TLC

VARIABLES
    now,        \* wall-clock time, in seconds
    fs,         \* the working directory: path -> file
    sessions,   \* the token service's issued sessions, in issue order
    pc,         \* position of the current run in main()
    args,       \* the parsed command line of the current run
    creds,      \* main's local `creds`
    client,     \* main's local `client`
    response,   \* the storage response of the current run
    stdout,     \* lines printed by the current run
    exitcode,   \* outcome of the run: -1 while running, 0, or 1 (uncaught exception)
    error,      \* the exception that ended the run, or "none"
    calls,      \* network calls made by the current run
    wrote,      \* paths written by the current run
    loaded,     \* paths read by the current run
    ambient,    \* whether the run's ambient identity may make the run's call
    request,    \* the keyword arguments of the run's network call
    callTime,   \* when the run's network call was made, -1 before it
    issuedFor   \* history: the auth command line behind each session

vars == <<now, fs, sessions, pc, args, creds, client, response, stdout,
          exitcode, error, calls, wrote, loaded, ambient, request, callTime,
          issuedFor>>

-----------------------------------------------------------------------------
(* Bounds of the model *)

Tick == 450          \* the clock advances in steps of Tick seconds
MaxIssued == 2       \* the token service issues at most this many bundles

MaxTime == 2 * Tick  \* the clock stops advancing here

(* Program constants *)

credential_lifetime == 900

DEFAULT_CREDS_FILE == "creds.json"

-----------------------------------------------------------------------------
(* Text *)

Slash == <<"/">>

StartsWith(s, p) == Len(p) <= Len(s) /\ SubSeq(s, 1, Len(p)) = p

Contains(s, c) == \E i \in 1..Len(s) : s[i] = c

AlnumChars ==
    {"a","b","c","d","e","f","g","h","i","j","k","l","m","n","o","p","q","r",
     "s","t","u","v","w","x","y","z",
     "A","B","C","D","E","F","G","H","I","J","K","L","M","N","O","P","Q","R",
     "S","T","U","V","W","X","Y","Z",
     "0","1","2","3","4","5","6","7","8","9"}

Digit(n) == <<"0","1","2","3","4","5","6","7","8","9">>[n + 1]

-----------------------------------------------------------------------------
(* Inputs: the command lines and the bucket contents the runs are tried on *)

Buckets == { <<"x">>, <<"y">> }

Folders == { <<"a">>, <<"a","b">>, <<"a","/","s">> }

ObjectNames == { <<"o">>, <<"n">>, <<"z">> }

Paths == { "creds.json", "alt.json" }

Subcmds == { "auth", "list", "read", "none" }

\* The objects stored in the service: bucket, key, body bytes.
Objects ==
    { [Bucket |-> <<"x">>, Key |-> <<"a","/","o">>,         Body |-> <<104, 105>>],
      [Bucket |-> <<"x">>, Key |-> <<"a","/","p">>,         Body |-> <<195, 169>>],
      [Bucket |-> <<"x">>, Key |-> <<"a","/","n">>,         Body |-> <<104, 255>>],
      [Bucket |-> <<"x">>, Key |-> <<"a","/","s","/","o">>, Body |-> <<111>>],
      [Bucket |-> <<"y">>, Key |-> <<"a","/","o">>,         Body |-> <<121>>] }

-----------------------------------------------------------------------------
(* json.dump / json.load of text: a JSON string literal escapes the quote  *)
(* and the backslash and is wrapped in quotes.                             *)

RECURSIVE JsonEscape(_)
JsonEscape(s) ==
    IF s = <<>> THEN <<>>
    ELSE IF Head(s) \in {"\"", "\\"}
         THEN <<"\\", Head(s)>> \o JsonEscape(Tail(s))
         ELSE <<Head(s)>> \o JsonEscape(Tail(s))

JsonEncodeStr(s) == <<"\"">> \o JsonEscape(s) \o <<"\"">>

RECURSIVE JsonUnescape(_)
JsonUnescape(t) ==
    IF t = <<>> THEN <<>>
    ELSE IF Head(t) = "\\" /\ Len(t) >= 2
         THEN <<t[2]>> \o JsonUnescape(Tail(Tail(t)))
         ELSE <<Head(t)>> \o JsonUnescape(Tail(t))

JsonDecodeStr(t) == JsonUnescape(SubSeq(t, 2, Len(t) - 1))

-----------------------------------------------------------------------------
(* get_creds: the policy document and the federation request *)

ArnS3 == <<"a","r","n",":","a","w","s",":","s","3",":",":",":">>

LitListBucket == <<"L","i","s","t","B","u","c","k","e","t">>

LitGetObject == <<"G","e","t","O","b","j","e","c","t">>

LitAccessTimeline == <<"A","c","c","e","s","s","T","i","m","e","l","i","n","e","-">>

CredentialName(folder_name) == LitAccessTimeline \o folder_name

\* Mutant: the list statement without the prefix condition.
ListStatementAnyPrefix(bucket_name, folder_name) ==
    [ Sid       |-> LitListBucket \o folder_name,
      Action    |-> <<"s3:ListBucket">>,
      Effect    |-> "Allow",
      Resource  |-> << ArnS3 \o bucket_name >>,
      Condition |-> [ StringEquals |-> ("s3:delimiter" :> << Slash >>) ] ]

ListStatement(bucket_name, folder_name) ==
    [ Sid       |-> LitListBucket \o folder_name,
      Action    |-> <<"s3:ListBucket">>,
      Effect    |-> "Allow",
      Resource  |-> << ArnS3 \o bucket_name >>,
      Condition |-> [ StringEquals |->
                        ("s3:prefix" :> << folder_name \o Slash >>)
                        @@ ("s3:delimiter" :> << Slash >>) ] ]

\* Mutant: the read statement for the whole bucket.
GetStatementWholeBucket(bucket_name, folder_name) ==
    [ Sid       |-> LitGetObject \o folder_name,
      Action    |-> <<"s3:GetObject">>,
      Effect    |-> "Allow",
      Resource  |-> << ArnS3 \o bucket_name \o Slash \o <<"*">> >> ]

\* Mutant: the read statement without the slash that closes the folder name.
GetStatementNoSlash(bucket_name, folder_name) ==
    [ Sid       |-> LitGetObject \o folder_name,
      Action    |-> <<"s3:GetObject">>,
      Effect    |-> "Allow",
      Resource  |-> << ArnS3 \o bucket_name \o Slash \o folder_name \o <<"*">> >> ]

GetStatement(bucket_name, folder_name) ==
    [ Sid       |-> LitGetObject \o folder_name,
      Action    |-> <<"s3:GetObject">>,
      Effect    |-> "Allow",
      Resource  |-> << ArnS3 \o bucket_name \o Slash \o folder_name \o Slash \o <<"*">> >> ]

Policy(bucket_name, folder_name) ==
    [ Version   |-> "2012-10-17",
      Statement |-> << ListStatement(bucket_name, folder_name),
                       GetStatement(bucket_name, folder_name) >> ]

\* json.dumps(policy): every text leaf becomes a JSON string literal.
DumpTexts(ts) == [i \in DOMAIN ts |-> JsonEncodeStr(ts[i])]

DumpStatement(st) ==
    LET base == [ Sid      |-> JsonEncodeStr(st.Sid),
                  Action   |-> st.Action,
                  Effect   |-> st.Effect,
                  Resource |-> DumpTexts(st.Resource) ]
    IN  IF "Condition" \in DOMAIN st
        THEN base @@ [ Condition |-> [ StringEquals |->
                 [k \in DOMAIN st.Condition.StringEquals |->
                     DumpTexts(st.Condition.StringEquals[k])] ] ]
        ELSE base

PolicyDumps(policy) ==
    [ Version   |-> policy.Version,
      Statement |-> [i \in DOMAIN policy.Statement |-> DumpStatement(policy.Statement[i])] ]

\* Mutant: a lifetime of twice the minimum.
FederationRequestLong(bucket_name, folder_name) ==
    [ Name            |-> CredentialName(folder_name),
      Policy          |-> PolicyDumps(Policy(bucket_name, folder_name)),
      DurationSeconds |-> 2 * credential_lifetime ]

\* The keyword arguments of client.get_federation_token(...).
FederationRequest(bucket_name, folder_name) ==
    [ Name            |-> CredentialName(folder_name),
      Policy          |-> PolicyDumps(Policy(bucket_name, folder_name)),
      DurationSeconds |-> credential_lifetime ]

-----------------------------------------------------------------------------
(* The token service (STS GetFederationToken), as the program relies on it *)

LoadTexts(ts) == [i \in DOMAIN ts |-> JsonDecodeStr(ts[i])]

LoadStatement(st) ==
    LET base == [ Sid      |-> JsonDecodeStr(st.Sid),
                  Action   |-> st.Action,
                  Effect   |-> st.Effect,
                  Resource |-> LoadTexts(st.Resource) ]
    IN  IF "Condition" \in DOMAIN st
        THEN base @@ [ Condition |-> [ StringEquals |->
                 [k \in DOMAIN st.Condition.StringEquals |->
                     LoadTexts(st.Condition.StringEquals[k])] ] ]
        ELSE base

PolicyLoads(doc) ==
    [ Version   |-> doc.Version,
      Statement |-> [i \in DOMAIN doc.Statement |-> LoadStatement(doc.Statement[i])] ]

\* "A name of our choice (no spaces allowed)": 2 to 32 characters of [\w+=,.@-].
NameOk(name) ==
    /\ Len(name) >= 2
    /\ Len(name) <= 32
    /\ \A i \in 1..Len(name) : name[i] \in AlnumChars \cup {"_","+","=",",",".","@","-"}

\* "A name of our choice [0-9a-zA-Z]": a statement id is alphanumeric.
SidOk(sid) == \A i \in 1..Len(sid) : sid[i] \in AlnumChars

PolicyOk(policy) ==
    \A i \in 1..Len(policy.Statement) :
        /\ SidOk(policy.Statement[i].Sid)
        /\ policy.Statement[i].Effect \in {"Allow", "Deny"}

\* "900 seconds is the minimum value"; the service's maximum is 36 hours.
DurationOk(d) == d >= 900 /\ d <= 129600

\* The n-th credential bundle the service hands out.
Bundle(n, expiration) ==
    [ AccessKeyId     |-> <<"A","S","I","A", Digit(n)>>,
      SecretAccessKey |-> <<"s","/","+", Digit(n)>>,
      SessionToken    |-> <<"F","w","o","G", Digit(n), "=">>,
      Expiration      |-> expiration ]

\* The error the service answers a federation request with, or "none".
FederationError(allowed, req) ==
    IF ~NameOk(req.Name) \/ ~DurationOk(req.DurationSeconds) THEN "ValidationError"
    ELSE IF ~PolicyOk(PolicyLoads(req.Policy)) THEN "MalformedPolicyDocument"
    ELSE IF ~allowed THEN "AccessDenied"
    ELSE "none"

\* The session the service records for a request it grants at time t.
NewSession(req, n, t) ==
    [ Credentials |-> Bundle(n, t + req.DurationSeconds),
      Policy      |-> PolicyLoads(req.Policy) ]

-----------------------------------------------------------------------------
(* The storage service (S3): authentication, policy evaluation, operations *)

\* IAM wildcard matching of a resource pattern: * is any text, ? any character.
RECURSIVE WildMatch(_, _)
WildMatch(pat, s) ==
    IF pat = <<>> THEN s = <<>>
    ELSE IF Head(pat) = "*"
         THEN WildMatch(Tail(pat), s) \/ (s # <<>> /\ WildMatch(pat, Tail(s)))
         ELSE /\ s # <<>>
              /\ (Head(pat) = "?" \/ Head(pat) = Head(s))
              /\ WildMatch(Tail(pat), Tail(s))

InSeq(x, seq) == \E i \in 1..Len(seq) : seq[i] = x

ConditionHolds(st, req) ==
    IF "Condition" \in DOMAIN st
    THEN \A k \in DOMAIN st.Condition.StringEquals :
            /\ k \in DOMAIN req.context
            /\ InSeq(req.context[k], st.Condition.StringEquals[k])
    ELSE TRUE

StatementMatches(st, req) ==
    /\ InSeq(req.action, st.Action)
    /\ \E i \in 1..Len(st.Resource) : WildMatch(st.Resource[i], req.resource)
    /\ ConditionHolds(st, req)

\* A session policy permits a request when an Allow statement matches it and
\* no Deny statement does.
PolicyPermits(policy, req) ==
    /\ \E i \in 1..Len(policy.Statement) :
          policy.Statement[i].Effect = "Allow" /\ StatementMatches(policy.Statement[i], req)
    /\ ~\E i \in 1..Len(policy.Statement) :
          policy.Statement[i].Effect = "Deny" /\ StatementMatches(policy.Statement[i], req)

\* The authorization request of list_objects(Bucket, Delimiter, Prefix).
ListRequest(bucket, prefix, delimiter) ==
    [ action   |-> "s3:ListBucket",
      resource |-> ArnS3 \o bucket,
      context  |-> IF delimiter = <<>>
                   THEN ("s3:prefix" :> prefix)
                   ELSE ("s3:prefix" :> prefix) @@ ("s3:delimiter" :> delimiter) ]

\* The authorization request of get_object(Bucket, Key).
GetRequest(bucket, key) ==
    [ action   |-> "s3:GetObject",
      resource |-> ArnS3 \o bucket \o Slash \o key,
      context  |-> [k \in {} |-> <<>>] ]

\* The bucket-level list permission S3 consults to tell a missing key from a
\* forbidden one.
BareListRequest(bucket) ==
    [ action   |-> "s3:ListBucket",
      resource |-> ArnS3 \o bucket,
      context  |-> [k \in {} |-> <<>>] ]

SessionIndex(ss, token) ==
    IF \E i \in 1..Len(ss) : ss[i].Credentials.SessionToken = token
    THEN CHOOSE i \in 1..Len(ss) : ss[i].Credentials.SessionToken = token
    ELSE 0

\* Authentication of a client's request at time t: the error, or "none".
AuthError(cl, ss, t) ==
    IF cl.kind = "plain" THEN "none"
    ELSE LET i == SessionIndex(ss, cl.aws_session_token)
         IN  IF i = 0 THEN "InvalidToken"
             ELSE IF ss[i].Credentials.AccessKeyId # cl.aws_access_key_id
                  THEN "InvalidAccessKeyId"
             ELSE IF ss[i].Credentials.SecretAccessKey # cl.aws_secret_access_key
                  THEN "SignatureDoesNotMatch"
             ELSE IF t >= ss[i].Credentials.Expiration THEN "ExpiredToken"
             ELSE "none"

\* Whether the authenticated caller may make the request: the ambient identity
\* by its own permissions, a federated session by its session policy.
Authorized(cl, ss, envAllowed, req) ==
    IF cl.kind = "plain" THEN envAllowed
    ELSE PolicyPermits(ss[SessionIndex(ss, cl.aws_session_token)].Policy, req)

\* The error of a storage request, or "none".
RequestError(cl, ss, t, envAllowed, req) ==
    IF AuthError(cl, ss, t) # "none" THEN AuthError(cl, ss, t)
    ELSE IF ~Authorized(cl, ss, envAllowed, req) THEN "AccessDenied"
    ELSE "none"

\* Keys a prefix+delimiter listing reports under Contents: those that start
\* with the prefix and hold no delimiter after it.
ListedKeys(bucket, prefix, delimiter) ==
    { o.Key : o \in { p \in Objects :
        /\ p.Bucket = bucket
        /\ StartsWith(p.Key, prefix)
        /\ \/ delimiter = <<>>
           \/ ~Contains(SubSeq(p.Key, Len(prefix) + 1, Len(p.Key)), delimiter[1]) } }

\* The orders in which the service may report a set of keys.
Orderings(S) ==
    { q \in [1..Cardinality(S) -> S] : \A k \in S : \E i \in 1..Cardinality(S) : q[i] = k }

\* A list response: "Contents" is absent when no key is reported.
ListResponse(keys) ==
    IF keys = <<>> THEN [ IsTruncated |-> FALSE ]
    ELSE [ IsTruncated |-> FALSE, Contents |-> [i \in DOMAIN keys |-> [Key |-> keys[i]]] ]

HasObject(bucket, key) == \E o \in Objects : o.Bucket = bucket /\ o.Key = key

ObjectBody(bucket, key) == (CHOOSE o \in Objects : o.Bucket = bucket /\ o.Key = key).Body

\* bytes.decode('utf-8'), for one- and two-byte encodings: the code points, or
\* <<-1>> where Python raises UnicodeDecodeError.
RECURSIVE Utf8Decode(_)
Utf8Decode(b) ==
    IF b = <<>> THEN <<>>
    ELSE IF Head(b) < 128
         THEN LET rest == Utf8Decode(Tail(b))
              IN  IF rest = <<-1>> THEN <<-1>> ELSE <<Head(b)>> \o rest
    ELSE IF Head(b) >= 194 /\ Head(b) <= 223 /\ Len(b) >= 2 /\ b[2] >= 128 /\ b[2] <= 191
         THEN LET rest == Utf8Decode(Tail(Tail(b)))
              IN  IF rest = <<-1>> THEN <<-1>>
                  ELSE <<(Head(b) - 192) * 64 + (b[2] - 128)>> \o rest
    ELSE <<-1>>

-----------------------------------------------------------------------------
(* The client, the requests and the cache file *)

PlainClient == [ kind |-> "plain" ]

NoClient == [ kind |-> "none" ]

None == [ None |-> TRUE ]

NoFile == [ exists |-> FALSE, members |-> <<>> ]

CredKeys == {"AccessKeyId", "SecretAccessKey", "SessionToken"}

\* Mutant: the secret passed as the session token.
s3_client_creds_swapped(c) ==
    [ kind                  |-> "creds",
      aws_access_key_id     |-> c["AccessKeyId"],
      aws_secret_access_key |-> c["SessionToken"],
      aws_session_token     |-> c["SecretAccessKey"] ]

\* s3_client_creds: the keyword arguments boto3.client('s3', ...) is given.
s3_client_creds(c) ==
    [ kind                  |-> "creds",
      aws_access_key_id     |-> c["AccessKeyId"],
      aws_secret_access_key |-> c["SecretAccessKey"],
      aws_session_token     |-> c["SessionToken"] ]

\* Mutant: the prefix without its closing slash.
ListArgsNoSlash(bucket_name, folder_name) ==
    [ Bucket |-> bucket_name, Delimiter |-> Slash, Prefix |-> folder_name ]

\* The keyword arguments of s3_client.list_objects(...).
ListArgs(bucket_name, folder_name) ==
    [ Bucket |-> bucket_name, Delimiter |-> Slash, Prefix |-> folder_name \o Slash ]

\* The keyword arguments of s3_client.get_object(...).
GetArgs(bucket_name, folder_name, file_name) ==
    [ Bucket |-> bucket_name, Key |-> folder_name \o Slash \o file_name ]

\* del creds['Expiration']
StripExpiration(c) == [k \in DOMAIN c \ {"Expiration"} |-> c[k]]

\* The order in which the token service's response holds its fields.
KeyOrder == <<"AccessKeyId", "SecretAccessKey", "SessionToken", "Expiration">>

\* json.dump of a credentials dict: its members in order, each value a JSON
\* string literal.  A datetime (Expiration) does not serialize.
JsonDumpable(c) == "Expiration" \notin DOMAIN c

JsonDump(c) ==
    LET names == SelectSeq(KeyOrder, LAMBDA k : k \in DOMAIN c)
    IN  [i \in DOMAIN names |-> [name |-> names[i], value |-> JsonEncodeStr(c[names[i]])]]

\* json.load of the file's members.
JsonLoad(members) ==
    [k \in {members[i].name : i \in DOMAIN members} |->
        JsonDecodeStr((CHOOSE m \in {members[i] : i \in DOMAIN members} : m.name = k).value)]

\* save_creds opens this path ...
save_creds_path == "creds.json"

\* ... and load_creds this one.
load_creds_path == "creds.json"

\* The file save_creds leaves behind.
save_creds(c) == [ exists |-> TRUE, members |-> JsonDump(StripExpiration(c)) ]

\* The dict load_creds returns for a file.
load_creds(file) == JsonLoad(file.members)

Line(text, arg) == [ text |-> text, arg |-> arg ]

\* Mutant: the keys printed last to first.
ListLinesReversed(resp) ==
    [i \in DOMAIN resp.Contents |->
        Line("  ", resp.Contents[Len(resp.Contents) + 1 - i].Key)]

\* The lines list_objects prints for a response that holds Contents.
ListLines(resp) == [i \in DOMAIN resp.Contents |-> Line("  ", resp.Contents[i].Key)]

NoCalls == [ sts |-> 0, list |-> 0, get |-> 0 ]

\* Mutant: a call that is made again after the first attempt.
CalledTwice(c, kind) == [c EXCEPT ![kind] = @ + 2]

\* One call of the given kind is made: no call is retried.
Called(c, kind) == [c EXCEPT ![kind] = @ + 1]

-----------------------------------------------------------------------------
(* The runs *)

Init ==
    /\ now = 0
    /\ fs = [p \in Paths |-> NoFile]
    /\ sessions = <<>>
    /\ pc = "idle"
    /\ args = None
    /\ creds = None
    /\ client = NoClient
    /\ response = None
    /\ stdout = <<>>
    /\ exitcode = -1
    /\ error = "none"
    /\ calls = NoCalls
    /\ wrote = {}
    /\ loaded = {}
    /\ ambient = TRUE
    /\ request = None
    /\ callTime = -1
    /\ issuedFor = <<>>

\* Mutant: the exception is caught and the process ends with status 0.
RaiseSwallowed(e) ==
    /\ error' = e
    /\ exitcode' = 0
    /\ pc' = "done"

\* An uncaught exception ends the process with a traceback and status 1.
Raise(e) ==
    /\ error' = e
    /\ exitcode' = 1
    /\ pc' = "done"

\* The process ends with status 0.
Exit0 ==
    /\ error' = "none"
    /\ exitcode' = 0
    /\ pc' = "done"

\* A process is started: parser.parse_args().
Start(subcmd, bucket, folder, env, path, object_name, amb) ==
    /\ pc = "idle"
    /\ subcmd = "auth" => Len(sessions) < MaxIssued
    /\ args' = [ subcmd |-> subcmd, bucket |-> bucket, folder |-> folder, env |-> env,
                 creds |-> path, object_name |-> object_name ]
    /\ ambient' = amb
    /\ pc' = "main"
    /\ UNCHANGED <<now, fs, sessions, creds, client, response, stdout, exitcode, error,
                   calls, wrote, loaded, request, callTime, issuedFor>>

\* The process has ended: its memory is gone, the files and the sessions stay.
Reap ==
    /\ pc = "done"
    /\ pc' = "idle"
    /\ args' = None
    /\ ambient' = TRUE
    /\ creds' = None
    /\ client' = NoClient
    /\ response' = None
    /\ stdout' = <<>>
    /\ exitcode' = -1
    /\ error' = "none"
    /\ calls' = NoCalls
    /\ wrote' = {}
    /\ loaded' = {}
    /\ request' = None
    /\ callTime' = -1
    /\ UNCHANGED <<now, fs, sessions, issuedFor>>

\* auth: creds = get_creds(args.bucket, args.folder)
GetCreds ==
    /\ pc = "main"
    /\ args.subcmd = "auth"
    /\ LET req == FederationRequest(args.bucket, args.folder)
           err == FederationError(ambient, req)
       IN  /\ calls' = Called(calls, "sts")
           /\ request' = req
           /\ callTime' = now
           /\ IF err # "none"
              THEN /\ Raise(err)
                   /\ UNCHANGED <<sessions, creds, issuedFor>>
              ELSE /\ sessions' = Append(sessions, NewSession(req, Len(sessions) + 1, now))
                   /\ issuedFor' = Append(issuedFor, [ bucket |-> args.bucket,
                                                       folder |-> args.folder, at |-> now ])
                   /\ creds' = sessions'[Len(sessions')].Credentials
                   /\ pc' = "save"
                   /\ UNCHANGED <<error, exitcode>>
    /\ UNCHANGED <<now, fs, args, client, response, stdout, wrote, loaded, ambient>>

\* auth: save_creds(creds); sys.exit(0)
SaveCreds ==
    /\ pc = "save"
    /\ wrote' = wrote \cup {save_creds_path}
    /\ IF JsonDumpable(StripExpiration(creds))
       THEN /\ fs' = [fs EXCEPT ![save_creds_path] = save_creds(creds)]
            /\ creds' = StripExpiration(creds)
            /\ stdout' = Append(stdout, Line("Saved credentials.", <<>>))
            /\ Exit0
       ELSE /\ fs' = [fs EXCEPT ![save_creds_path] = [exists |-> TRUE, members |-> <<>>]]
            /\ creds' = StripExpiration(creds)
            /\ Raise("TypeError")
            /\ UNCHANGED stdout
    /\ UNCHANGED <<now, sessions, args, client, response, calls, loaded, ambient,
                   request, callTime, issuedFor>>

\* list, read or no subcommand: the client is built from the environment
\* (--env) or from the cache file.
MakeClient ==
    /\ pc = "main"
    /\ args.subcmd # "auth"
    /\ IF args.env
       THEN /\ client' = PlainClient
            /\ pc' = "dispatch"
            /\ UNCHANGED <<creds, stdout, loaded, error, exitcode>>
       ELSE IF ~fs[load_creds_path].exists
       THEN /\ Raise("FileNotFoundError")
            /\ UNCHANGED <<creds, client, stdout, loaded>>
       ELSE /\ loaded' = loaded \cup {load_creds_path}
            /\ creds' = load_creds(fs[load_creds_path])
            /\ IF CredKeys \subseteq DOMAIN creds'
               THEN /\ client' = s3_client_creds(creds')
                    /\ stdout' = stdout \o << Line("Loaded credentials.", <<>>),
                          Line("Now use those credentials and try to access s3 resources...", <<>>) >>
                    /\ pc' = "dispatch"
                    /\ UNCHANGED <<error, exitcode>>
               ELSE /\ stdout' = Append(stdout, Line("Loaded credentials.", <<>>))
                    /\ Raise("KeyError")
                    /\ UNCHANGED client
    /\ UNCHANGED <<now, fs, sessions, args, response, calls, wrote, ambient,
                   request, callTime, issuedFor>>

\* list: list_objects(client, args.bucket, args.folder), then the end of main.
ListObjects ==
    /\ pc = "dispatch"
    /\ args.subcmd = "list"
    /\ LET a   == ListArgs(args.bucket, args.folder)
           err == RequestError(client, sessions, now, ambient,
                               ListRequest(a.Bucket, a.Prefix, a.Delimiter))
       IN  /\ calls' = Called(calls, "list")
           /\ request' = a
           /\ callTime' = now
           /\ IF err # "none"
              THEN /\ Raise(err)
                   /\ UNCHANGED <<response, stdout>>
              ELSE \E keys \in Orderings(ListedKeys(a.Bucket, a.Prefix, a.Delimiter)) :
                   /\ response' = ListResponse(keys)
                   /\ IF "Contents" \in DOMAIN response'
                      THEN /\ stdout' = Append(stdout, Line("Folder contents:", <<>>))
                                            \o ListLines(response')
                           /\ Exit0
                      ELSE /\ stdout' = Append(stdout, Line("Folder contents:", <<>>))
                           /\ Raise("KeyError")
    /\ UNCHANGED <<now, fs, sessions, args, creds, client, wrote, loaded, ambient,
                   issuedFor>>

\* read: get_object(client, args.bucket, args.folder, args.object_name), then
\* the end of main.
GetObject ==
    /\ pc = "dispatch"
    /\ args.subcmd = "read"
    /\ LET a   == GetArgs(args.bucket, args.folder, args.object_name)
           err == RequestError(client, sessions, now, ambient, GetRequest(a.Bucket, a.Key))
           lst == RequestError(client, sessions, now, ambient, BareListRequest(a.Bucket))
       IN  /\ calls' = Called(calls, "get")
           /\ request' = a
           /\ callTime' = now
           /\ IF err # "none"
              THEN /\ Raise(err)
                   /\ UNCHANGED <<response, stdout>>
              ELSE IF ~HasObject(a.Bucket, a.Key)
              THEN /\ Raise(IF lst = "none" THEN "NoSuchKey" ELSE "AccessDenied")
                   /\ UNCHANGED <<response, stdout>>
              ELSE /\ response' = [ Body |-> ObjectBody(a.Bucket, a.Key) ]
                   /\ IF Utf8Decode(response'.Body) = <<-1>>
                      THEN /\ Raise("UnicodeDecodeError")
                           /\ UNCHANGED stdout
                      ELSE /\ stdout' = stdout \o << Line("Contents of file:", <<>>),
                                                     Line("", Utf8Decode(response'.Body)) >>
                           /\ Exit0
    /\ UNCHANGED <<now, fs, sessions, args, creds, client, wrote, loaded, ambient,
                   issuedFor>>

\* No subcommand: neither `if` of the end of main applies.
NoSubcmd ==
    /\ pc = "dispatch"
    /\ args.subcmd = "none"
    /\ Exit0
    /\ UNCHANGED <<now, fs, sessions, args, creds, client, response, stdout, calls,
                   wrote, loaded, ambient, request, callTime, issuedFor>>

\* Time passes.
Advance ==
    /\ now + Tick <= MaxTime
    /\ now' = now + Tick
    /\ UNCHANGED <<fs, sessions, pc, args, creds, client, response, stdout, exitcode,
                   error, calls, wrote, loaded, ambient, request, callTime, issuedFor>>

\* The command lines tried.  An object name goes with read only; auth ignores
\* --env; the ambient identity is varied only where the run uses it; --creds
\* is varied where the run touches the cache file; a run without subcommand
\* is tried on one bucket and folder.
StartAny ==
    /\ pc = "idle"
    /\ \E subcmd \in Subcmds, bucket \in Buckets, folder \in Folders, env \in BOOLEAN,
          path \in Paths, object_name \in ObjectNames \cup {<<>>}, amb \in BOOLEAN :
        /\ (object_name # <<>>) <=> (subcmd = "read")
        /\ subcmd = "auth" => ~env
        /\ (subcmd = "none" \/ (subcmd \in {"list", "read"} /\ ~env)) => amb
        /\ (subcmd = "none" \/ env) => path = DEFAULT_CREDS_FILE
        /\ subcmd = "none" => (bucket = <<"x">> /\ folder = <<"a">>)
        /\ Start(subcmd, bucket, folder, env, path, object_name, amb)

Next ==
    \/ StartAny
    \/ GetCreds
    \/ SaveCreds
    \/ MakeClient
    \/ ListObjects
    \/ GetObject
    \/ NoSubcmd
    \/ Reap
    \/ Advance

Spec == Init /\ [][Next]_vars

-----------------------------------------------------------------------------
(* Properties *)

Finished == pc = "done"

UsesCache == client.kind = "creds"

\* The session the run's cached credentials belong to, and the auth command
\* line that obtained it.
CachedIndex == SessionIndex(sessions, client.aws_session_token)

CachedFor == issuedFor[CachedIndex]

\* The key a read run asks for.
ReadKey == args.folder \o <<"/">> \o args.object_name

StorageErrors == {"AccessDenied", "ExpiredToken", "InvalidToken", "InvalidAccessKeyId",
                  "SignatureDoesNotMatch", "NoSuchKey"}

TokenErrors == {"ValidationError", "MalformedPolicyDocument", "AccessDenied"}

ResultLine(l) == l.text \in {"Folder contents:", "Contents of file:", "  ", ""}

\* What a run that loaded the cache file has printed before its request.
Preamble ==
    IF UsesCache
    THEN << Line("Loaded credentials.", <<>>),
            Line("Now use those credentials and try to access s3 resources...", <<>>) >>
    ELSE <<>>

\* C1 as stated: after auth for folder f1, a list of another folder f2 of the
\* same bucket with the cached credentials always ends with AccessDenied.
C1_Original ==
    ( /\ Finished /\ args.subcmd = "list" /\ UsesCache
      /\ CachedFor.bucket = args.bucket
      /\ CachedFor.folder # args.folder )
    => error = "AccessDenied"

\* C1, amended: such a list is never answered; it ends with AccessDenied while
\* the cached credentials are unexpired and with ExpiredToken once they are.
C1_OtherFolderListRejected ==
    ( /\ Finished /\ args.subcmd = "list" /\ UsesCache
      /\ CachedFor.bucket = args.bucket
      /\ CachedFor.folder # args.folder )
    => /\ request.Prefix = args.folder \o <<"/">>
       /\ request.Prefix # CachedFor.folder \o <<"/">>
       /\ error = IF callTime >= CachedFor.at + 900 THEN "ExpiredToken" ELSE "AccessDenied"
       /\ exitcode = 1
       /\ response = None

C1_Witness ==
    /\ Finished /\ args.subcmd = "list" /\ UsesCache
    /\ CachedFor.bucket = args.bucket
    /\ CachedFor.folder = <<"a">>
    /\ args.folder = <<"a","b">>
    /\ error = "AccessDenied"

\* C2: after auth for (b, f), a list of the same bucket and folder with the
\* cached, unexpired credentials carries exactly prefix f/ and delimiter /,
\* which is the issued policy's list condition, is answered by the service,
\* and every key it returns and prints starts with f/.
C2_SameFolderListPermitted ==
    ( /\ Finished /\ args.subcmd = "list" /\ UsesCache
      /\ CachedFor.bucket = args.bucket
      /\ CachedFor.folder = args.folder
      /\ callTime < CachedFor.at + 900 )
    => /\ request = [ Bucket |-> args.bucket, Delimiter |-> <<"/">>,
                      Prefix |-> args.folder \o <<"/">> ]
       /\ sessions[CachedIndex].Policy.Statement[1].Condition.StringEquals
            = ("s3:prefix" :> << args.folder \o <<"/">> >>) @@ ("s3:delimiter" :> << <<"/">> >>)
       /\ error \in {"none", "KeyError"}
       /\ response # None
       /\ "Contents" \in DOMAIN response =>
             /\ \A i \in 1..Len(response.Contents) :
                   StartsWith(response.Contents[i].Key, args.folder \o <<"/">>)
             /\ \A i \in 1..Len(stdout) :
                   stdout[i].text = "  " => StartsWith(stdout[i].arg, args.folder \o <<"/">>)

C2_Witness ==
    /\ Finished /\ args.subcmd = "list" /\ UsesCache
    /\ CachedFor.bucket = args.bucket
    /\ CachedFor.folder = args.folder
    /\ callTime < CachedFor.at + 900
    /\ callTime > CachedFor.at
    /\ exitcode = 0
    /\ Len(response.Contents) >= 2

\* C3 as stated: with the scoped credentials of folder f a read of a key
\* outside f/ always ends with AccessDenied, and the same read with --env (the
\* cache file holding those credentials) succeeds whenever the ambient
\* identity may read the object.
C3_Original ==
    /\ ( /\ Finished /\ args.subcmd = "read" /\ UsesCache
         /\ ~StartsWith(ReadKey, CachedFor.folder \o <<"/">>) )
       => error = "AccessDenied"
    /\ ( /\ Finished /\ args.subcmd = "read" /\ args.env
         /\ Len(issuedFor) > 0 /\ fs["creds.json"].exists
         /\ ~StartsWith(ReadKey, issuedFor[Len(issuedFor)].folder \o <<"/">>)
         /\ ambient /\ HasObject(args.bucket, ReadKey) )
       => (exitcode = 0 /\ loaded = {})

\* C3, amended: with scoped credentials a read of a key outside f/ ends with
\* AccessDenied while they are unexpired and with ExpiredToken afterwards; with
\* --env the cache file is not loaded, the ambient identity is used, and the
\* read of an object that identity may read succeeds exactly when the body is
\* valid UTF-8 (UnicodeDecodeError otherwise).
C3_OutsideReadRejected ==
    /\ ( /\ Finished /\ args.subcmd = "read" /\ UsesCache
         /\ ~StartsWith(ReadKey, CachedFor.folder \o <<"/">>) )
       => /\ error = IF callTime >= CachedFor.at + 900 THEN "ExpiredToken" ELSE "AccessDenied"
          /\ exitcode = 1
          /\ response = None
    /\ ( /\ pc \in {"dispatch", "done"} /\ args.subcmd = "read" /\ args.env )
       => (loaded = {} /\ creds = None /\ client = PlainClient)
    /\ ( /\ Finished /\ args.subcmd = "read" /\ args.env
         /\ ambient /\ HasObject(args.bucket, ReadKey) )
       => /\ error \in {"none", "UnicodeDecodeError"}
          /\ (error = "none") <=> (Utf8Decode(ObjectBody(args.bucket, ReadKey)) # <<-1>>)
          /\ (error = "none") <=> (exitcode = 0)

\* A scoped read outside the folder is denied although the object exists and
\* the ambient identity could read it.
C3_Witness ==
    /\ Finished /\ args.subcmd = "read" /\ UsesCache
    /\ CachedFor.folder = <<"a","b">>
    /\ args.folder = <<"a">>
    /\ HasObject(args.bucket, ReadKey)
    /\ error = "AccessDenied"

TestTexts ==
    LET A == {"k", "\"", "\\"}
    IN  {<<>>} \cup { <<c>> : c \in A } \cup { <<c, d>> : c \in A, d \in A }

\* C5: the file save_creds writes, read back by load_creds, holds exactly
\* AccessKeyId, SecretAccessKey and SessionToken with the issued values and no
\* Expiration (for the issued bundle, and for any bundle of texts that need
\* escaping); the S3 client built from a loaded bundle is given exactly the
\* three values of an issued bundle.
C5_RoundTrip ==
    /\ ( /\ Finished /\ args.subcmd = "auth" /\ exitcode = 0 )
       => LET issued == sessions[Len(sessions)].Credentials
              back   == load_creds(fs["creds.json"])
          IN  /\ DOMAIN back = {"AccessKeyId", "SecretAccessKey", "SessionToken"}
              /\ \A k \in DOMAIN back : back[k] = issued[k]
    /\ pc = "save" =>
          \A s \in TestTexts, t \in TestTexts :
             LET b == [ AccessKeyId |-> s, SecretAccessKey |-> t, SessionToken |-> s \o t,
                        Expiration |-> now ]
             IN  load_creds(save_creds(b)) =
                    [ AccessKeyId |-> s, SecretAccessKey |-> t, SessionToken |-> s \o t ]
    /\ loaded # {}
       => /\ DOMAIN creds = {"AccessKeyId", "SecretAccessKey", "SessionToken"}
          /\ creds = load_creds(fs["creds.json"])
          /\ client = [ kind                  |-> "creds",
                        aws_access_key_id     |-> creds["AccessKeyId"],
                        aws_secret_access_key |-> creds["SecretAccessKey"],
                        aws_session_token     |-> creds["SessionToken"] ]
          /\ \E i \in 1..Len(sessions) :
                /\ client.aws_access_key_id = sessions[i].Credentials.AccessKeyId
                /\ client.aws_secret_access_key = sessions[i].Credentials.SecretAccessKey
                /\ client.aws_session_token = sessions[i].Credentials.SessionToken

\* A client was built from the file a second auth run wrote.
C5_Witness ==
    /\ pc = "dispatch" /\ UsesCache
    /\ Len(sessions) = 2
    /\ client.aws_session_token = sessions[2].Credentials.SessionToken
    /\ "Expiration" \notin DOMAIN creds

\* C6 as stated: auth writes the issued credentials to the --creds path, and
\* list/read without --env load that path.
C6_CredsOption ==
    /\ ( /\ Finished /\ args.subcmd = "auth" /\ exitcode = 0 )
       => /\ wrote = {args.creds}
          /\ fs[args.creds].exists
    /\ ( /\ Finished /\ args.subcmd \in {"list", "read"} /\ ~args.env /\ loaded # {} )
       => loaded = {args.creds}

\* C7: an error ends the run at once with a non-zero status and nothing of the
\* run happens after it: a missing cache file is followed by no request, a
\* rejected token exchange by no write, a rejected storage request or an
\* undecodable body by no output of a result; auth ends with status 0 only
\* after one granted exchange and with the granted bundle in the cache file.
C7_FailFast ==
    /\ (error # "none") <=> (exitcode = 1)
    /\ Finished <=> (exitcode \in {0, 1})
    /\ Finished => ~ENABLED (GetCreds \/ SaveCreds \/ MakeClient \/ ListObjects
                                \/ GetObject \/ NoSubcmd)
    /\ calls.sts + calls.list + calls.get <= 1
    /\ error = "FileNotFoundError"
          => /\ args.subcmd \in {"list", "read", "none"} /\ ~args.env
             /\ ~fs["creds.json"].exists
             /\ calls = NoCalls /\ request = None /\ client = NoClient /\ stdout = <<>>
    /\ (args # None /\ args.subcmd = "auth" /\ error # "none")
          => /\ error \in TokenErrors
             /\ wrote = {} /\ creds = None /\ stdout = <<>>
    /\ (args # None /\ args.subcmd \in {"list", "read"} /\ error \in StorageErrors)
          => /\ response = None
             /\ \A i \in 1..Len(stdout) : ~ResultLine(stdout[i])
    /\ error = "UnicodeDecodeError"
          => \A i \in 1..Len(stdout) : ~ResultLine(stdout[i])
    /\ (Finished /\ args.subcmd = "auth" /\ exitcode = 0)
          => /\ calls = [ sts |-> 1, list |-> 0, get |-> 0 ]
             /\ Len(sessions) >= 1
             /\ issuedFor[Len(sessions)] =
                   [ bucket |-> args.bucket, folder |-> args.folder, at |-> callTime ]
             /\ fs["creds.json"].exists
             /\ load_creds(fs["creds.json"])["SessionToken"]
                   = sessions[Len(sessions)].Credentials.SessionToken

\* A list run without cache file ended before any request.
C7_Witness ==
    /\ Finished /\ args.subcmd = "list"
    /\ error = "FileNotFoundError"
    /\ exitcode = 1
    /\ calls = NoCalls

\* C8 as stated: an auth run makes exactly one token-exchange call, a list run
\* exactly one list request, a read run exactly one get-object request, and
\* list and read neither call the token service nor write the cache file.
C8_Original ==
    Finished =>
       /\ args.subcmd = "auth" => calls = [ sts |-> 1, list |-> 0, get |-> 0 ]
       /\ args.subcmd = "list" => (calls = [ sts |-> 0, list |-> 1, get |-> 0 ] /\ wrote = {})
       /\ args.subcmd = "read" => (calls = [ sts |-> 0, list |-> 0, get |-> 1 ] /\ wrote = {})

\* C8, amended: no run makes more than one network call; an auth run makes one
\* token-exchange call and no storage call; a list (read) run makes one list
\* (get-object) request, or none at all when it ended at the missing cache
\* file; list and read never call the token service or write a file.
C8_OneCall ==
    /\ calls.sts + calls.list + calls.get <= 1
    /\ (args # None /\ args.subcmd # "auth") => (calls.sts = 0 /\ wrote = {})
    /\ Finished =>
          /\ args.subcmd = "auth" => calls = [ sts |-> 1, list |-> 0, get |-> 0 ]
          /\ args.subcmd = "list" =>
                calls = IF error = "FileNotFoundError" THEN NoCalls
                        ELSE [ sts |-> 0, list |-> 1, get |-> 0 ]
          /\ args.subcmd = "read" =>
                calls = IF error = "FileNotFoundError" THEN NoCalls
                        ELSE [ sts |-> 0, list |-> 0, get |-> 1 ]
          /\ args.subcmd = "none" => calls = NoCalls

\* A read run that was answered made its one request.
C8_Witness ==
    /\ Finished /\ args.subcmd = "read" /\ UsesCache
    /\ exitcode = 0
    /\ calls = [ sts |-> 0, list |-> 0, get |-> 1 ]

\* Requests the policy of a session is tried on.
TestPrefixes ==
    {<<>>} \cup Folders \cup { f \o <<"/">> : f \in Folders }
           \cup { f \o <<"/","s","u","b","/">> : f \in Folders }

TestKeys ==
    { o.Key : o \in Objects }
       \cup { f \o <<"/">> \o n : f \in Folders, n \in ObjectNames }
       \cup { f \o <<"/","s","u","b","/","x">> : f \in Folders }
       \cup Folders \cup { f \o <<"/">> : f \in Folders }

\* C9: the policy auth submits for (b, f) has two statements, both Allow: list
\* of bucket b under the condition prefix = f/ and delimiter = /, and read of
\* b/f/* without condition.  The credentials issued for it permit a list
\* request exactly when it is for b with prefix f/ and delimiter / (so not the
\* nested prefix f/sub/), a read exactly when it is for a key of b that starts
\* with f/ (nested keys included), and no other action.
C9_PolicyScope ==
    /\ (calls.sts > 0) =>
          LET pol == PolicyLoads(request.Policy)
          IN  /\ Len(pol.Statement) = 2
              /\ \A i \in 1..2 : pol.Statement[i].Effect = "Allow"
              /\ pol.Statement[1].Action = <<"s3:ListBucket">>
              /\ pol.Statement[1].Resource = << ArnS3 \o args.bucket >>
              /\ pol.Statement[1].Condition =
                    [ StringEquals |-> ("s3:prefix" :> << args.folder \o <<"/">> >>)
                                       @@ ("s3:delimiter" :> << <<"/">> >>) ]
              /\ pol.Statement[2].Action = <<"s3:GetObject">>
              /\ pol.Statement[2].Resource =
                    << ArnS3 \o args.bucket \o <<"/">> \o args.folder \o <<"/","*">> >>
              /\ "Condition" \notin DOMAIN pol.Statement[2]
    /\ pc = "save" =>
          LET pol == sessions[Len(sessions)].Policy
              b   == args.bucket
              f   == args.folder
          IN  /\ pol = PolicyLoads(request.Policy)
              /\ \A bb \in Buckets, p \in TestPrefixes, d \in {<<>>, <<"/">>, <<"|">>} :
                    PolicyPermits(pol, ListRequest(bb, p, d))
                       <=> (bb = b /\ p = f \o <<"/">> /\ d = <<"/">>)
              /\ ~PolicyPermits(pol, ListRequest(b, f \o <<"/","s","u","b","/">>, <<"/">>))
              /\ \A bb \in Buckets, k \in TestKeys :
                    PolicyPermits(pol, GetRequest(bb, k))
                       <=> (bb = b /\ StartsWith(k, f \o <<"/">>))
              /\ PolicyPermits(pol, GetRequest(b, f \o <<"/","s","u","b","/","x">>))
              /\ \A bb \in Buckets, k \in TestKeys,
                    a \in {"s3:PutObject", "s3:DeleteObject", "s3:ListBucketVersions"} :
                    ~PolicyPermits(pol, [GetRequest(bb, k) EXCEPT !.action = a])
    /\ ( /\ Finished /\ UsesCache /\ args.subcmd \in {"list", "read"} /\ response # None )
       => /\ CachedFor.bucket = args.bucket
          /\ args.subcmd = "list" => CachedFor.folder = args.folder
          /\ args.subcmd = "read" => StartsWith(ReadKey, CachedFor.folder \o <<"/">>)

\* A nested key of the authorised folder was read with credentials for "a".
C9_Witness ==
    /\ Finished /\ args.subcmd = "read" /\ UsesCache
    /\ CachedFor.folder = <<"a">>
    /\ args.folder = <<"a","/","s">>
    /\ exitcode = 0

\* C10: a list that the service answers without "Contents" ends with an error
\* (KeyError) and status 1 after the heading; one answered with "Contents"
\* prints, after the heading, each returned key once in the order of the
\* response, and ends with status 0.
C10_EmptyListingFails ==
    ( /\ Finished /\ args.subcmd = "list" /\ response # None )
    => IF "Contents" \in DOMAIN response
       THEN /\ exitcode = 0 /\ error = "none"
            /\ Len(stdout) = Len(Preamble) + 1 + Len(response.Contents)
            /\ SubSeq(stdout, 1, Len(Preamble) + 1)
                  = Preamble \o << [ text |-> "Folder contents:", arg |-> <<>> ] >>
            /\ \A i \in 1..Len(response.Contents) :
                  stdout[Len(Preamble) + 1 + i]
                     = [ text |-> "  ", arg |-> response.Contents[i].Key ]
            /\ \A i, j \in 1..Len(response.Contents) :
                  response.Contents[i].Key = response.Contents[j].Key => i = j
       ELSE /\ exitcode = 1 /\ error = "KeyError"
            /\ stdout = Preamble \o << [ text |-> "Folder contents:", arg |-> <<>> ] >>
            /\ ListedKeys(args.bucket, args.folder \o <<"/">>, <<"/">>) = {}

\* A permitted list of a folder without direct entries crashed.
C10_Witness ==
    /\ Finished /\ args.subcmd = "list" /\ UsesCache
    /\ response # None
    /\ "Contents" \notin DOMAIN response
    /\ error = "KeyError"
    /\ exitcode = 1

====
